---- MODULE Spec2Model ----
(***************************************************************************)
(* State-machine model of app.py: the Streamlit monitoring dashboard.     *)
(* One UI session over one SQLite database (tables users and alerts), the *)
(* page router, the login / register / dashboard handlers, the frame loop *)
(* run_camera with detect_events and trigger_alert, and the two           *)
(* notification channels send_email and send_sms.                         *)
(*                                                                         *)
(* Time is the wall clock time.time() in whole seconds.  A script run of  *)
(* Streamlit is single threaded: a handler runs to completion, and the    *)
(* frame loop advances one iteration at a time while the clock ticks.     *)
(***************************************************************************)
EXTENDS Integers, Sequences, FiniteSets, TLC

\* ---------------------------------------------------------------- constants
ALERT_COOLDOWN == 20

\* class id of "person" in the general object detector
PERSON == 0

\* ------------------------------------------------------------------- bounds
\* wall clock when the session is created (time.time() is far from 0)
StartTime == 30
\* confidences are the levels 0..MaxConf
MaxConf == 3
\* boxes of both detectors together in one frame, where detect_events is
\* checked on its own
MaxBoxes == 2
\* frames an uploaded video holds at most, where the end of the source matters
MaxFrames == 2

\* the instants at which the clock is read, as offsets from StartTime: pairs
\* of instants lie 1, ALERT_COOLDOWN - 1, ALERT_COOLDOWN and ALERT_COOLDOWN + 1
\* seconds apart
Offsets == {0, 1, ALERT_COOLDOWN, ALERT_COOLDOWN + 1}
Instants == {StartTime + d : d \in Offsets}

Usernames == {"", "alice"}
\* passwords typed at registration, and passwords typed at login
RegPasswords == {"pw1"}
Passwords == {"pw1", "pw2"}
Confs == 0..MaxConf
\* thresholds of detect_events, and the value the slider is left at
Thresholds == 1..(MaxConf - 1)
Slider == {1}
Classes == {PERSON, 1}

Box == [conf : Confs, cls : Classes]

\* the results of one detector on one frame: its list of boxes
RECURSIVE BoxSeqs(_)
BoxSeqs(n) ==
    IF n = 0 THEN {<<>>}
    ELSE LET S == BoxSeqs(n - 1)
         IN  S \cup {Append(s, b) : s \in {x \in S : Len(x) = n - 1}, b \in Box}

\* frames offered to the frame loop, as the boxes the two detectors report:
\* nothing, a person, a fire, both, a person below every threshold, and an
\* object of another class
Scenes ==
    LET person == <<[conf |-> MaxConf, cls |-> PERSON]>>
        fire == <<[conf |-> MaxConf, cls |-> 1]>>
    IN  {<<<<>>, <<>>>>, <<person, <<>>>>, <<<<>>, fire>>, <<person, fire>>,
         <<<<[conf |-> 0, cls |-> PERSON]>>, <<>>>>,
         <<<<[conf |-> MaxConf, cls |-> 1]>>, <<>>>>}

VARIABLES
    users,            \* table users: sequence of rows, in insertion order
    alerts,           \* table alerts: sequence of rows, in insertion order
    page,             \* st.session_state.page
    logged_in,        \* st.session_state.logged_in
    username,         \* st.session_state.username
    last_alert_time,  \* st.session_state.last_alert_time
    now,              \* time.time()
    files,            \* snapshot files on disk
    pc,               \* run_camera: "idle", "loop", "returned", "raised"
    cap,              \* the capture handle: "none", "open", "released"
    conf,             \* the conf argument of the current run_camera
    alert_box,        \* the placeholder alert_box: empty, or the text it shows
    events,           \* run_camera's local list alerts, of the latest frame
    effects,          \* side effects of the latest frame, in order
    frames,           \* frames the source of the current run still yields
    msgs,             \* st.error / st.success texts of the latest script run
    det               \* detect_events on its own: inputs and output

vars == <<users, alerts, page, logged_in, username, last_alert_time, now,
          files, pc, cap, conf, alert_box, events, effects, frames, msgs, det>>

session == <<page, logged_in, username, last_alert_time>>
camera == <<pc, cap, conf, alert_box, events, effects, frames>>

\* ------------------------------------------------------------------- utils
hash_password(p) == <<"sha256", p>>

\* a login that trusts what was typed, without a look at the table
check_login_any(u, p) == <<[username |-> u, password |-> hash_password(p)]>>

\* the rows SELECT * FROM users WHERE username=? AND password=? yields
check_login(u, p) ==
    SelectSeq(users, LAMBDA row : row.username = u /\ row.password = hash_password(p))

\* the rows SELECT ... FROM users WHERE username=? yields
contact(u) == SelectSeq(users, LAMBDA row : row.username = u)

Range(s) == {s[i] : i \in DOMAIN s}

DetIdle == [results |-> <<>>, fire_results |-> <<>>, conf |-> 1,
            out |-> <<>>, text |-> <<>>, done |-> FALSE]

Init ==
    /\ users = <<>>
    /\ alerts = <<>>
    /\ page = "login"
    /\ logged_in = FALSE
    /\ username = ""
    /\ last_alert_time = 0
    /\ now = StartTime
    /\ files = {}
    /\ pc = "idle"
    /\ cap = "none"
    /\ conf = 1
    /\ alert_box = <<>>
    /\ events = <<>>
    /\ effects = <<>>
    /\ frames = 0
    /\ msgs = {}
    /\ det = DetIdle

\* ---------------------------------------------------------------- detection
\* a strict comparison in place of >=
qualifies_strict(c, t) == c > t

\* the test float(box.conf[0]) >= conf
qualifies(c, t) == c >= t

\* the test int(box.cls[0]) == 0
is_person(cls) == cls = PERSON

\* first loop of detect_events: the labels appended for the general detector
RECURSIVE person_labels(_, _)
person_labels(boxes, t) ==
    IF boxes = <<>> THEN <<>>
    ELSE LET box == Head(boxes)
             rest == person_labels(Tail(boxes), t)
         IN  IF qualifies(box.conf, t) /\ is_person(box.cls)
             THEN <<"Person Detected">> \o rest
             ELSE rest

\* second loop of detect_events: the labels appended for the fire detector
RECURSIVE fire_labels(_, _)
fire_labels(boxes, t) ==
    IF boxes = <<>> THEN <<>>
    ELSE LET box == Head(boxes)
             rest == fire_labels(Tail(boxes), t)
         IN  IF qualifies(box.conf, t)
             THEN <<"Fire Detected">> \o rest
             ELSE rest

\* the list returned as it was built, without set()
list_of_set_keep(xs) == {xs}

\* list(set(xs)): the elements of xs once each, in an order the hash seed picks
list_of_set(xs) ==
    LET S == Range(xs)
    IN  {l \in [1..Cardinality(S) -> S] : Range(l) = S}

\* the lists detect_events(results, fire_results, conf) can return
detect_events(results, fire_results, t) ==
    list_of_set(person_labels(results, t) \o fire_labels(fire_results, t))

\* sep.join(list), as the sequence of its pieces
\* the labels put one after another with nothing between them
join_no_sep(sep, list) == list

RECURSIVE join(_, _)
join(sep, list) ==
    IF Len(list) = 0 THEN <<>>
    ELSE IF Len(list) = 1 THEN <<list[1]>>
    ELSE <<list[1], sep>> \o join(sep, Tail(list))

\* a branch taken for every list
truthy_always(list) == TRUE

\* truth value of a list: "if alerts:"
truthy(list) == Len(list) > 0

\* ------------------------------------------------------------------- pages
\* the router renders the login page
on_login == page = "login"
\* the router renders the register page
on_register == page # "login" /\ page = "register"
\* the router renders the dashboard
on_dashboard == page # "login" /\ page # "register" /\ logged_in

\* a widget can be used once the previous script run is over
script_idle == pc # "loop"

\* every script run builds the page anew, and run_camera's locals are gone
fresh == /\ alert_box' = <<>>
         /\ events' = <<>>
         /\ effects' = <<>>
         /\ pc' = "idle"
         /\ cap' = "none"
         /\ conf' = 1
         /\ frames' = 0

\* a Login that keeps the typed username also when the check fails
login_page_Login_keeps_name(u, p) ==
    /\ on_login /\ script_idle
    /\ LET user == check_login(u, p)
       IN  IF Len(user) > 0
           THEN /\ logged_in' = TRUE
                /\ username' = Head(user).username
                /\ page' = "dashboard"
                /\ msgs' = {}
           ELSE /\ msgs' = {"Invalid credentials"}
                /\ username' = u
                /\ UNCHANGED <<logged_in, page>>
    /\ fresh
    /\ UNCHANGED <<users, alerts, last_alert_time, now, files, det>>

\* login_page, button "Login"
login_page_Login(u, p) ==
    /\ on_login /\ script_idle
    /\ LET user == check_login(u, p)
       IN  IF Len(user) > 0
           THEN /\ logged_in' = TRUE
                /\ username' = Head(user).username
                /\ page' = "dashboard"
                /\ msgs' = {}
           ELSE /\ msgs' = {"Invalid credentials"}
                /\ UNCHANGED <<logged_in, username, page>>
    /\ fresh
    /\ UNCHANGED <<users, alerts, last_alert_time, now, files, det>>

\* login_page, button "Register"
login_page_Register ==
    /\ on_login /\ script_idle
    /\ page' = "register"
    /\ msgs' = {}
    /\ fresh
    /\ UNCHANGED <<users, alerts, logged_in, username, last_alert_time, now,
                   files, det>>

\* a username column without UNIQUE
unique_violation_never(u) == FALSE

\* the UNIQUE constraint on users.username
unique_violation(u) == \E i \in DOMAIN users : users[i].username = u

\* register_page, button "Submit".  The INSERT raises on a duplicate username.
\* Otherwise the row is committed, st.success is shown, page is set, and
\* st.rerun() raises Streamlit's RerunException (a BaseException) inside the
\* try block, where the bare except clause catches it and shows st.error.
register_page_Submit(u, p) ==
    /\ on_register /\ script_idle
    /\ IF unique_violation(u)
       THEN /\ msgs' = {"Username already exists"}
            /\ UNCHANGED <<users, page>>
       ELSE /\ users' = Append(users, [username |-> u, password |-> hash_password(p)])
            /\ page' = "login"
            /\ msgs' = {"Registered Successfully", "Username already exists"}
    /\ fresh
    /\ UNCHANGED <<alerts, logged_in, username, last_alert_time, now,
                   files, det>>

\* a Logout that clears the flag and stays on the page it was on
dashboard_Logout_keeps_page ==
    /\ on_dashboard /\ script_idle
    /\ logged_in' = FALSE
    /\ msgs' = {}
    /\ fresh
    /\ UNCHANGED <<users, alerts, page, username, last_alert_time, now,
                   files, det>>

\* dashboard, sidebar button "Logout"
dashboard_Logout ==
    /\ on_dashboard /\ script_idle
    /\ logged_in' = FALSE
    /\ page' = "login"
    /\ msgs' = {}
    /\ fresh
    /\ UNCHANGED <<users, alerts, username, last_alert_time, now,
                   files, det>>

\* ------------------------------------------------------------ notifications
\* send_email without its try / except: a failure leaves the function
send_email_uncaught(fails) ==
    IF Len(contact(username)) = 0 THEN "email_skipped"
    ELSE IF fails THEN "email_raise"
    ELSE "email_sent"

\* send_email: skipped without a users row of the session's username; any
\* exception of the lookup, the attachment or the SMTP dialogue is caught
\* and printed
send_email(fails) ==
    IF Len(contact(username)) = 0 THEN "email_skipped"
    ELSE IF fails THEN "email_error"
    ELSE "email_sent"

\* send_sms: skipped without a users row of the session's username; any
\* exception of the lookup or the HTTP POST is caught and printed
send_sms(fails) ==
    IF Len(contact(username)) = 0 THEN "sms_skipped"
    ELSE IF fails THEN "sms_error"
    ELSE "sms_sent"

\* ------------------------------------------------------------------ alerts
\* datetime.now().strftime("%Y-%m-%d %H:%M:%S")
strftime(t) == <<"%Y-%m-%d %H:%M:%S", t>>

\* f"alert_{int(time.time())}.jpg"
image_name(t) == <<"alert_", t, ".jpg">>

\* a gate that also closes at exactly ALERT_COOLDOWN seconds
in_cooldown_inclusive(t, last) == t - last <= ALERT_COOLDOWN

\* the test of the cooldown gate: now - last_alert_time < ALERT_COOLDOWN
in_cooldown(t, last) == t - last < ALERT_COOLDOWN

\* the row of the INSERT
alert_row(text, t) ==
    [username |-> username, alert_type |-> text, time |-> strftime(t),
     image_path |-> image_name(t)]

\* an INSERT that is executed twice
insert_into_twice(table, row) == Append(Append(table, row), row)

\* INSERT INTO alerts VALUES(NULL,?,?,?,?) and commit
insert_into(table, row) == Append(table, row)

\* what the environment does to one call of trigger_alert.  imwrite:
\* cv2.imwrite writes the file ("ok"), returns False without a file ("false")
\* or raises ("raise"); insert: the INSERT and commit succeed ("ok") or raise
\* ("raise"); email_fails and sms_fails: the channel raises in its try block.
Outcomes ==
    {[imwrite |-> "raise", insert |-> "ok", email_fails |-> FALSE, sms_fails |-> FALSE]}
    \cup {[imwrite |-> w, insert |-> "raise", email_fails |-> FALSE, sms_fails |-> FALSE] :
             w \in {"ok", "false"}}
    \cup [imwrite : {"ok", "false"}, insert : {"ok"},
          email_fails : BOOLEAN, sms_fails : BOOLEAN]

\* the outcome in which nothing fails
Smooth == [imwrite |-> "ok", insert |-> "ok", email_fails |-> FALSE, sms_fails |-> FALSE]

\* an exception that leaves the statement
is_raise(step) == step \in {"imwrite_raise", "insert_raise", "email_raise", "sms_raise"}

\* the notifications sent ahead of the snapshot and the row
alert_steps_notify_first(o) ==
    <<send_email(o.email_fails),
      send_sms(o.sms_fails),
      CASE o.imwrite = "ok" -> "imwrite"
        [] o.imwrite = "false" -> "imwrite_false"
        [] OTHER -> "imwrite_raise",
      IF o.insert = "ok" THEN "insert" ELSE "insert_raise",
      "set_last">>

\* the statements of trigger_alert after the gate, in program order, each
\* with what it does under the outcome o
alert_steps(o) ==
    <<CASE o.imwrite = "ok" -> "imwrite"
        [] o.imwrite = "false" -> "imwrite_false"
        [] OTHER -> "imwrite_raise",
      IF o.insert = "ok" THEN "insert" ELSE "insert_raise",
      send_email(o.email_fails),
      send_sms(o.sms_fails),
      "set_last">>

\* the statements that run: all of them, or those up to the first that raises
RECURSIVE until_raise(_)
until_raise(steps) ==
    IF steps = <<>> THEN <<>>
    ELSE IF is_raise(Head(steps)) THEN <<Head(steps)>>
    ELSE <<Head(steps)>> \o until_raise(Tail(steps))

\* a gate whose window starts anew at every suppressed attempt
trigger_alert_sliding(text, o) ==
    IF in_cooldown(now, last_alert_time)
    THEN /\ effects' = <<>>
         /\ pc' = "loop"
         /\ last_alert_time' = now
         /\ UNCHANGED <<files, alerts>>
    ELSE LET ran == until_raise(alert_steps(o))
         IN  /\ effects' = ran
             /\ files' = IF "imwrite" \in Range(ran)
                         THEN files \cup {image_name(now)} ELSE files
             /\ alerts' = IF "insert" \in Range(ran)
                          THEN insert_into(alerts, alert_row(text, now)) ELSE alerts
             /\ last_alert_time' = IF "set_last" \in Range(ran)
                                   THEN now ELSE last_alert_time
             /\ pc' = IF is_raise(ran[Len(ran)]) THEN "raised" ELSE "loop"

\* trigger_alert(text, frame) under the outcome o
trigger_alert(text, o) ==
    IF in_cooldown(now, last_alert_time)
    THEN /\ effects' = <<>>
         /\ pc' = "loop"
         /\ UNCHANGED <<files, alerts, last_alert_time>>
    ELSE LET ran == until_raise(alert_steps(o))
         IN  /\ effects' = ran
             /\ files' = IF "imwrite" \in Range(ran)
                         THEN files \cup {image_name(now)} ELSE files
             /\ alerts' = IF "insert" \in Range(ran)
                          THEN insert_into(alerts, alert_row(text, now)) ELSE alerts
             /\ last_alert_time' = IF "set_last" \in Range(ran)
                                   THEN now ELSE last_alert_time
             /\ pc' = IF is_raise(ran[Len(ran)]) THEN "raised" ELSE "loop"

\* ------------------------------------------------------------------ camera
\* a source that yields frames until it is cut, however many that are
Endless == 0 - 1

\* dashboard, button "Start" or "Play": run_camera(src, conf) up to the loop.
\* A source that cannot be opened skips the loop and is released at once;
\* one that opens yields frames until some read reports none.
run_camera_open(opened, t) ==
    /\ on_dashboard /\ script_idle
    /\ conf' = t
    /\ IF opened
       THEN cap' = "open" /\ pc' = "loop" /\ frames' = Endless
       ELSE cap' = "released" /\ pc' = "returned" /\ frames' = 0
    /\ alert_box' = <<>>
    /\ events' = <<>>
    /\ effects' = <<>>
    /\ msgs' = {}
    /\ UNCHANGED <<users, alerts, session, now, files, det>>

\* dashboard, button "Play": run_camera(path, conf) up to the loop, on an
\* uploaded video that opens and holds n frames
run_camera_open_file(n, t) ==
    /\ on_dashboard /\ script_idle
    /\ conf' = t
    /\ cap' = "open"
    /\ pc' = "loop"
    /\ frames' = n
    /\ alert_box' = <<>>
    /\ events' = <<>>
    /\ effects' = <<>>
    /\ msgs' = {}
    /\ UNCHANGED <<users, alerts, session, now, files, det>>

\* cap.read() has a frame to report
has_frame == frames # 0

\* the source after one more frame was read from it
read_frame == IF frames = Endless THEN Endless ELSE frames - 1

\* a loop that reads on after a read reported no frame
run_camera_end_no_break ==
    /\ pc = "loop"
    /\ frames \in {0, Endless}
    /\ frames' = 0
    /\ UNCHANGED <<users, alerts, session, now, files, pc, cap, conf, alert_box,
                   events, effects, msgs, det>>

\* cap.read() reports no frame (or the handle is no longer open): the loop
\* ends, cap.release() runs and run_camera returns
run_camera_end ==
    /\ pc = "loop"
    /\ frames \in {0, Endless}
    /\ frames' = 0
    /\ cap' = "released"
    /\ pc' = "returned"
    /\ events' = <<>>
    /\ effects' = <<>>
    /\ UNCHANGED <<users, alerts, session, now, files, conf, alert_box, msgs, det>>

\* one iteration in which model inference or a display call (frame_box.image,
\* alert_box.error, alert_box.success) raises, also when Streamlit stops the
\* script run at that call: the error leaves run_camera
run_camera_error ==
    /\ pc = "loop"
    /\ has_frame
    /\ pc' = "raised"
    /\ events' = <<>>
    /\ effects' = <<>>
    /\ UNCHANGED <<users, alerts, session, now, files, cap, conf, alert_box, frames,
                   msgs, det>>

\* one iteration of the loop of run_camera on a frame in which
\* detect_events finds nothing: the else branch of "if alerts:"
run_camera_clear(scene) ==
    /\ pc = "loop"
    /\ has_frame
    /\ frames' = read_frame
    /\ \E list \in detect_events(scene[1], scene[2], conf) :
          /\ ~truthy(list)
          /\ events' = list
          /\ alert_box' = <<"No threats detected">>
          /\ effects' = <<>>
    /\ UNCHANGED <<users, alerts, session, now, files, pc, cap, conf, msgs, det>>

\* one iteration of the loop of run_camera on a frame in which
\* detect_events finds something: the then branch of "if alerts:".  (While
\* the gate is closed trigger_alert attempts nothing, so that one outcome
\* stands for all of them.)
run_camera_alert(scene, o) ==
    /\ pc = "loop"
    /\ has_frame
    /\ frames' = read_frame
    /\ in_cooldown(now, last_alert_time) => o = Smooth
    /\ \E list \in detect_events(scene[1], scene[2], conf) :
          /\ truthy(list)
          /\ alert_box' = join(" | ", list)
          /\ trigger_alert(join(" | ", list), o)
          /\ events' = IF pc' = "raised" THEN <<>> ELSE list
    /\ UNCHANGED <<users, page, logged_in, username, now, cap, conf, msgs, det>>

\* the clock
Tick ==
    /\ \E t \in Instants : t > now
    /\ now' = CHOOSE t \in Instants : t > now /\ \A x \in Instants : x > now => t <= x
    /\ UNCHANGED <<users, alerts, session, files, camera, msgs, det>>

Next ==
    \/ Tick
    \/ \E u \in Usernames, p \in Passwords : login_page_Login(u, p)
    \/ login_page_Register
    \/ \E u \in Usernames, p \in RegPasswords : register_page_Submit(u, p)
    \/ dashboard_Logout
    \/ \E opened \in BOOLEAN, t \in Slider : run_camera_open(opened, t)
    \/ run_camera_end
    \/ run_camera_error
    \/ \E scene \in Scenes : run_camera_clear(scene)
    \/ \E scene \in Scenes, o \in Outcomes : run_camera_alert(scene, o)

Spec == Init /\ [][Next]_vars

\* ------------------------------------------------ sources that come to an end
\* one iteration of the while loop of run_camera, whichever way it goes
run_camera_iteration ==
    \/ run_camera_end
    \/ run_camera_error
    \/ \E scene \in Scenes : run_camera_clear(scene)
    \/ \E scene \in Scenes, o \in Outcomes : run_camera_alert(scene, o)

\* the session of one user, whose runs are on sources that cannot be opened
\* or on videos of MaxFrames frames at most
NextLive ==
    \/ Tick
    \/ \E p \in Passwords : login_page_Login("alice", p)
    \/ login_page_Register
    \/ \E p \in RegPasswords : register_page_Submit("alice", p)
    \/ dashboard_Logout
    \/ \E t \in Slider : run_camera_open(FALSE, t)
    \/ \E n \in 0..MaxFrames, t \in Slider : run_camera_open_file(n, t)
    \/ run_camera_end
    \/ run_camera_error
    \/ \E scene \in Scenes : run_camera_clear(scene)
    \/ \E scene \in Scenes, o \in Outcomes : run_camera_alert(scene, o)

\* the script thread keeps running the loop it is in: every call in an
\* iteration returns or raises
SpecLive == Init /\ [][NextLive]_vars /\ WF_vars(run_camera_iteration)

\* ------------------------------------------------- detect_events on its own
\* the frames detect_events is applied to: any boxes of the two detectors,
\* MaxBoxes of them at most, under any threshold
DetInputs ==
    UNION {{[results |-> r, fire_results |-> f, conf |-> t,
             out |-> <<>>, text |-> <<>>, done |-> FALSE] :
               f \in BoxSeqs(MaxBoxes - Len(r)), t \in Thresholds} :
           r \in BoxSeqs(MaxBoxes)}

InitDetect ==
    /\ users = <<>>
    /\ alerts = <<>>
    /\ page = "login"
    /\ logged_in = FALSE
    /\ username = ""
    /\ last_alert_time = 0
    /\ now = StartTime
    /\ files = {}
    /\ pc = "idle"
    /\ cap = "none"
    /\ conf = 1
    /\ alert_box = <<>>
    /\ events = <<>>
    /\ effects = <<>>
    /\ frames = 0
    /\ msgs = {}
    /\ det \in DetInputs

\* run_camera, from the call of detect_events to the text of the alert
detect_step ==
    /\ ~det.done
    /\ \E list \in detect_events(det.results, det.fire_results, det.conf) :
          det' = [det EXCEPT !.out = list,
                             !.text = IF truthy(list) THEN join(" | ", list) ELSE <<>>,
                             !.done = TRUE]
    /\ UNCHANGED <<users, alerts, session, now, files, camera, msgs>>

NextDetect == detect_step

SpecDetect == InitDetect /\ [][NextDetect]_vars

\* ------------------------------------------------------------------ claims
Labels(list) == Range(list)
Names(table) == {table[i].username : i \in DOMAIN table}
TimeOf(row) == row.time[2]
Last(s) == s[Len(s)]

\* C1: an alert attempt (a frame with a non-empty event list, whose call of
\* trigger_alert returns) at time now is admitted, a row appended and
\* last_alert_time set to now, exactly when now - last_alert_time >= 20, and
\* otherwise changes neither; a call that raises admits nothing; so any two
\* rows of alerts lie at least 20 seconds apart, whatever their labels.
C1_Cooldown ==
    [][ /\ (pc = "loop" /\ now' = now /\ pc' = "loop" /\ Len(events') > 0) =>
              IF now - last_alert_time >= 20
              THEN Len(alerts') = Len(alerts) + 1 /\ last_alert_time' = now
              ELSE alerts' = alerts /\ last_alert_time' = last_alert_time
        /\ (pc = "loop" /\ pc' = "raised") =>
              alerts' = alerts /\ last_alert_time' = last_alert_time
        /\ \A i, j \in DOMAIN alerts' :
              i < j => TimeOf(alerts'[j]) - TimeOf(alerts'[i]) >= 20
      ]_vars

\* an alert at t0, a second one with another label admitted at t0 + 20, and
\* an attempt one second later that was suppressed
C1_Witness ==
    /\ Len(alerts) = 2
    /\ TimeOf(alerts[2]) - TimeOf(alerts[1]) = 20
    /\ alerts[1].alert_type # alerts[2].alert_type
    /\ last_alert_time = TimeOf(alerts[2])
    /\ now = last_alert_time + 1
    /\ pc = "loop"
    /\ Len(events) > 0
    /\ effects = <<>>

\* C2: a frame whose event list is empty writes no snapshot, appends no row,
\* attempts no email or SMS and leaves last_alert_time unchanged.
C2_EmptyFrame ==
    [][ (pc = "loop" /\ now' = now /\ pc' = "loop" /\ Len(events') = 0) =>
            /\ files' = files
            /\ alerts' = alerts
            /\ effects' = <<>>
            /\ last_alert_time' = last_alert_time
      ]_vars

\* an empty frame was processed in a session that never admitted an alert,
\* more than 20 seconds after its start
C2_Witness ==
    /\ pc = "loop"
    /\ alert_box = <<"No threats detected">>
    /\ events = <<>>
    /\ last_alert_time = 0
    /\ now - StartTime > 20
    /\ alerts = <<>>
    /\ files = {}

\* C3: the table alerts changes only by one row appended by an admitted
\* alert (a frame with events, read when the cooldown has elapsed), the row
\* carries the time of that frame, and every admission appends its row.
C3_OneRecordPerAdmission ==
    [][ (alerts' # alerts \/ last_alert_time' # last_alert_time) =>
            /\ pc = "loop"
            /\ Len(events') > 0
            /\ now - last_alert_time >= 20
            /\ Len(alerts') = Len(alerts) + 1
            /\ SubSeq(alerts', 1, Len(alerts)) = alerts
            /\ TimeOf(Last(alerts')) = now
            /\ last_alert_time' = now
      ]_vars

\* fire at the start gave the only row, and a frame without events was
\* processed after the cooldown
C3_Witness ==
    /\ Len(alerts) = 1
    /\ alerts[1].alert_type = <<"Fire Detected">>
    /\ TimeOf(alerts[1]) = StartTime
    /\ now - StartTime > 20
    /\ pc = "loop"
    /\ alert_box = <<"No threats detected">>
    /\ events = <<>>

EmailFailed(step) == step \in {"email_error", "email_raise"}
SmsFailed(step) == step \in {"sms_error", "sms_raise"}

\* C4: when the email channel fails the SMS is attempted next, and when
\* either channel fails the row of the alert is in the table,
\* last_alert_time is the time of that alert and no error left trigger_alert.
C4_NotificationIsolation ==
    /\ \A i \in DOMAIN effects :
          EmailFailed(effects[i]) =>
              i < Len(effects) /\ effects[i + 1] \in {"sms_sent", "sms_error"}
    /\ (\E i \in DOMAIN effects : EmailFailed(effects[i]) \/ SmsFailed(effects[i])) =>
          /\ pc # "raised"
          /\ "insert" \in Range(effects)
          /\ Len(alerts) > 0
          /\ TimeOf(Last(alerts)) = last_alert_time
          /\ Last(effects) = "set_last"

\* the email of an admitted alert failed, and the SMS was sent
C4_Witness ==
    /\ effects = <<"imwrite", "insert", "email_error", "sms_sent", "set_last">>
    /\ pc = "loop"
    /\ Len(alerts) = 1
    /\ last_alert_time = now

\* C5: whenever run_camera has stopped, by return or by an error, the
\* capture handle of that run has been released.
C5_ReleasedOnExit ==
    pc \in {"returned", "raised"} => cap = "released"

\* C7: a Submit either is rejected with "Username already exists" and writes
\* nothing, or appends one row of a username the table does not hold and
\* reports success; the table holds no username twice, and no other action
\* writes to it.
C7_UniqueRegistration ==
    [][ /\ (page = "register" /\ now' = now) =>
              \/ /\ users' = users
                 /\ users # <<>>
                 /\ msgs' = {"Username already exists"}
                 /\ page' = "register"
              \/ /\ Len(users') = Len(users) + 1
                 /\ SubSeq(users', 1, Len(users)) = users
                 /\ Last(users').username \notin Names(users)
                 /\ "Registered Successfully" \in msgs'
        /\ \A i, j \in DOMAIN users' :
              users'[i].username = users'[j].username => i = j
        /\ users' # users => page = "register"
      ]_vars

\* alice is registered, and a second Submit of the only username in the
\* table was rejected
C7_Witness ==
    /\ Len(users) = 1
    /\ users[1].username = "alice"
    /\ page = "register"
    /\ msgs = {"Username already exists"}

\* C8: the Logout action puts the session's username and last_alert_time
\* back to their initial values.
C8_ResetOnLogout ==
    [][ (logged_in /\ ~logged_in') => (username' = "" /\ last_alert_time' = 0) ]_vars

\* C10 as stated: every row of alerts has the username of a users row, and
\* none has the empty username.
C10_NeverEmptyUsername ==
    \A i \in DOMAIN alerts :
        alerts[i].username \in Names(users) /\ alerts[i].username # ""

\* C10, amended: a row of alerts is created only in a logged-in session,
\* with the session's username, which is the username of a users row at
\* that moment (the empty string, when a user registered with it).
C10_Referential ==
    [][ alerts' # alerts =>
            /\ logged_in
            /\ Last(alerts').username = username
            /\ Last(alerts').username \in Names(users)
      ]_vars

\* alerts of two registered users, one of them with the empty username
C10_Witness ==
    /\ Len(alerts) = 2
    /\ alerts[1].username = ""
    /\ alerts[2].username = "alice"
    /\ {"", "alice"} \subseteq Names(users)

\* C6: a box of the general detector contributes "Person Detected" exactly
\* when its confidence is at least the threshold and its class is person; a
\* box of the fire detector contributes "Fire Detected" exactly when its
\* confidence is at least the threshold, whatever its class.
C6_Labelling ==
    det.done =>
        /\ "Person Detected" \in Labels(det.out)
              <=> \E i \in DOMAIN det.results :
                     /\ det.results[i].conf >= det.conf
                     /\ det.results[i].cls = 0
        /\ "Fire Detected" \in Labels(det.out)
              <=> \E i \in DOMAIN det.fire_results :
                     det.fire_results[i].conf >= det.conf

\* a person box exactly at the threshold was labelled, next to a fire box of
\* class person below the threshold that was not
C6_Witness ==
    /\ det.done
    /\ \E i \in DOMAIN det.results :
          det.results[i].conf = det.conf /\ det.results[i].cls = 0
    /\ \E i \in DOMAIN det.fire_results :
          det.fire_results[i].conf < det.conf /\ det.fire_results[i].cls = 0
    /\ det.out = <<"Person Detected">>

\* C9: the list detect_events returns holds each label at most once, and no
\* label other than "Person Detected" and "Fire Detected".
C9_Deduplicated ==
    det.done =>
        /\ \A i, j \in DOMAIN det.out : i # j => det.out[i] # det.out[j]
        /\ Labels(det.out) \subseteq {"Person Detected", "Fire Detected"}

\* two qualifying person boxes gave a single entry
C9_Witness ==
    /\ det.done
    /\ Len(det.results) = 2
    /\ \A i \in DOMAIN det.results :
          det.results[i].conf >= det.conf /\ det.results[i].cls = 0
    /\ det.out = <<"Person Detected">>

\* C11: every row of alerts names in image_path a snapshot file that was
\* written; no row is committed when the snapshot write produced no file.
C11_SnapshotWritten ==
    \A i \in DOMAIN alerts : alerts[i].image_path \in files

\* C12: a Login that is rejected leaves the session state and both tables
\* as they were, and logged_in becomes true only on the login page, with
\* the username of a users row whose digest is that of a password.
C12_FailedLogin ==
    [][ /\ (page = "login" /\ now' = now /\ page' = "login") =>
              /\ logged_in' = logged_in
              /\ username' = username
              /\ last_alert_time' = last_alert_time
              /\ users' = users
              /\ alerts' = alerts
        /\ (logged_in' /\ ~logged_in) =>
              /\ page = "login"
              /\ \E i \in DOMAIN users, p \in Passwords :
                    /\ users[i].username = username'
                    /\ users[i].password = <<"sha256", p>>
      ]_vars

\* a Login was rejected while alice is registered, in a session that had
\* an alert admitted before
C12_Witness ==
    /\ msgs = {"Invalid credentials"}
    /\ page = "login"
    /\ ~logged_in
    /\ username = "alice"
    /\ last_alert_time > 0
    /\ Len(alerts) = 1

\* C13: the text of every inserted row, which is the text shown in the
\* alert box and handed to trigger_alert, is the labels of the frame's
\* non-empty event list joined with " | ": each label exactly once, a
\* separator between neighbours, nothing else, in whatever order the list
\* came out.
C13_CompositeMessage ==
    [][ alerts' # alerts =>
          LET text == alerts'[Len(alerts')].alert_type
              L    == {events'[i] : i \in DOMAIN events'}
              odd  == {i \in DOMAIN text : i % 2 = 1}
          IN  /\ L # {}
              /\ alert_box' = text
              /\ Len(text) = 2 * Cardinality(L) - 1
              /\ \A i \in DOMAIN text \ odd : text[i] = " | "
              /\ \A i \in odd : text[i] \in L
              /\ \A l \in L : Cardinality({i \in odd : text[i] = l}) = 1
      ]_vars

\* rows stored for a frame with both labels, in either order, and for a
\* frame with one
C13_Witness ==
    /\ Len(alerts) = 2
    /\ alerts[1].alert_type \in
          { <<"Fire Detected", " | ", "Person Detected">>,
            <<"Person Detected", " | ", "Fire Detected">> }
    /\ alerts[2].alert_type = <<"Person Detected">>

\* C14: a run on a source that comes to an end leaves the loop; once
\* run_camera is left no frame is processed (no file, no row, no new text
\* in the alert box, last_alert_time as it was) until a next run is
\* started; and a run on a source that cannot be opened returns at once,
\* released, with no frame processed and no error raised.
C14_Terminates ==
    /\ (pc = "loop") ~> (pc \in {"returned", "raised"})
    /\ [][ pc # "loop" =>
              /\ files' = files
              /\ alerts' = alerts
              /\ last_alert_time' = last_alert_time
              /\ alert_box' \in {alert_box, <<>>}
              /\ effects' \in {effects, <<>>}
              /\ pc' = "raised" => pc = "raised"
              /\ (pc' = "returned" /\ now' = now) =>
                    cap' = "released" /\ Len(alert_box') = 0 /\ frames' = 0
      ]_vars
    /\ [][ (pc = "loop" /\ frames = 0 /\ now' = now) =>
              /\ pc' = "returned"
              /\ cap' = "released"
              /\ files' = files /\ alerts' = alerts /\ alert_box' = alert_box
      ]_vars

\* a video of two frames was played to its end: an alert, and its text
\* still in the alert box after run_camera returned
C14_Witness ==
    /\ pc = "returned"
    /\ cap = "released"
    /\ frames = 0
    /\ Len(alerts) = 1
    /\ Len(alert_box) = 3

\* C15: a Submit reports "Username already exists" exactly when the
\* username it carries is in the users table already; a Submit with a new
\* username inserts the row, reports the success only and moves the
\* session to the login page.
C15_RejectionOnlyOnConflict ==
    [][ (page = "register" /\ now' = now) =>
          /\ ("Username already exists" \in msgs') <=> (users' = users)
          /\ users' # users =>
                /\ msgs' = {"Registered Successfully"}
                /\ page' = "login"
      ]_vars

\* C16: a frame with events that arrives less than 20 seconds after the
\* last admitted alert changes nothing: no snapshot file, no row, no email
\* or SMS attempt, and last_alert_time as it was, so that the window is
\* not extended and the next alert is admitted 20 seconds after the last
\* admitted one.
C16_SuppressedNoEffect ==
    [][ (pc = "loop" /\ now' = now /\ Len(events') > 0
           /\ now - last_alert_time < 20) =>
          /\ files' = files
          /\ alerts' = alerts
          /\ effects' = <<>>
          /\ last_alert_time' = last_alert_time
          /\ pc' = "loop"
      ]_vars

\* one alert admitted and, a second later, a frame with events whose
\* attempt was suppressed: one row, one file, last_alert_time still the
\* time of the row
C16_Witness ==
    /\ pc = "loop"
    /\ Len(events) > 0
    /\ effects = <<>>
    /\ now = last_alert_time + 1
    /\ Len(alerts) = 1
    /\ alerts[1].time[2] = last_alert_time
    /\ files = {alerts[1].image_path}

\* the place of a side effect in the order snapshot, row, email, SMS,
\* last_alert_time
StepRank(step) ==
    CASE step \in {"imwrite", "imwrite_false", "imwrite_raise"} -> 1
      [] step \in {"insert", "insert_raise"} -> 2
      [] step \in {"email_sent", "email_skipped", "email_error", "email_raise"} -> 3
      [] step \in {"sms_sent", "sms_skipped", "sms_error", "sms_raise"} -> 4
      [] step = "set_last" -> 5
      [] OTHER -> 0

\* C17: the side effects of an admitted alert come in the order snapshot,
\* row inserted and committed, email, SMS, last_alert_time; so whenever a
\* notification was attempted the row is in the table already, a failed
\* notification neither removes it nor keeps last_alert_time from being
\* set, and the rows of the table are in the order of time of their alerts.
C17_EffectOrder ==
    /\ \A i \in DOMAIN effects : StepRank(effects[i]) = i
    /\ Len(effects) >= 3 =>
          /\ effects[2] = "insert"
          /\ Len(effects) = 5
          /\ Len(alerts) > 0
          /\ alerts[Len(alerts)].time[2] = last_alert_time
          /\ pc # "raised"
    /\ \A i, j \in DOMAIN alerts : i < j => alerts[i].time[2] < alerts[j].time[2]

\* a second alert, admitted after the first, whose email and SMS both
\* failed: all five steps ran, in order
C17_Witness ==
    /\ Len(alerts) = 2
    /\ effects = <<"imwrite", "insert", "email_error", "sms_error", "set_last">>
    /\ last_alert_time = alerts[2].time[2]

\* C18: whenever the session is on the dashboard page it is logged in, as
\* a user of the users table; and a run of run_camera (the frame loop, or
\* what it left behind) exists only on the dashboard of a logged-in
\* session, so that no alert is created before a login or after a logout.
C18_AccessControl ==
    /\ page = "dashboard" =>
          /\ logged_in
          /\ \E i \in DOMAIN users : users[i].username = username
    /\ pc # "idle" => (page = "dashboard" /\ logged_in)
    /\ ~logged_in => (cap = "none" /\ effects = <<>> /\ alert_box = <<>>)

\* alice, logged in and on the dashboard, in a frame loop that has just
\* been started, with an alert of an earlier run in the table
C18_Witness ==
    /\ page = "dashboard"
    /\ logged_in
    /\ username = "alice"
    /\ pc = "loop"
    /\ Len(alerts) = 1
    /\ alerts[1].time[2] < now
    /\ last_alert_time = alerts[1].time[2]
    /\ effects = <<>>
    /\ Len(events) = 0
    /\ msgs = {}
====
